---- MODULE Spec2Model ----
(***************************************************************************)
(* LayerNormGrad<T, U>: the CUDA kernel adapter of the layer-normalization *)
(* backward pass (orttraining/training_ops/cuda/nn/layer_norm.cc).         *)
(*                                                                         *)
(* One kernel instance is constructed from an OpKernelInfo and then        *)
(* serves compute calls.  ComputeInternal is const, so several calls may   *)
(* run on the same instance at once; each call is a process whose position *)
(* in ComputeInternal is pc[c].  Tensors are represented by their shapes   *)
(* (sequences of dimensions); the element data and the element types T, U  *)
(* play no part in the shape/dispatch logic modelled here.                 *)
(***************************************************************************)
EXTENDS Integers, Sequences, FiniteSets, TLC

(* ---------------------------- bounds ----------------------------------- *)
MaxRank == 3
MaxDim == 4
NumCalls == 2

(* ------------------------- program constants --------------------------- *)
\* const int part_size = 16;
part_size == 16

(* --------------------------- input domains ----------------------------- *)
Dims == 0..MaxDim
Shapes == UNION {[1..r -> Dims] : r \in 0..MaxRank}
\* scale and bias tensors the context may bind (never validated by the kernel)
ParamShapes == {<<4>>, <<3, 4>>}
\* values of an integer "axis" attribute: every valid axis of every rank,
\* and one value out of range on either side
AttrValues == (0 - MaxRank - 1)..MaxRank
\* the attribute as found in the OpKernelInfo: an integer, a value of
\* another type, or no attribute at all
AttrInfos == {[kind |-> "INT", v |-> a] : a \in AttrValues}
             \cup {[kind |-> "FLOAT", v |-> 0], [kind |-> "absent", v |-> 0]}
\* inputs of the calls that run concurrently
ParShapes == {<<2, 1>>}
ParParams == {<<2>>}
ParInfos == {[kind |-> "INT", v |-> a] : a \in {-1, 0}}
            \cup {[kind |-> "absent", v |-> 0]}

Calls == 1..NumCalls
\* device addresses the scratch allocator can hand out; 0 is the null handle
BufIds == 1..(2 * NumCalls)
Null == 0

VARIABLES
  info,             \* OpKernelInfo: the "axis" attribute of the node
  kernel,           \* "unbuilt" | "built" | "failed" (constructor threw)
  axis_,            \* member int64_t axis_
  pc,               \* position of each call in ComputeInternal
  y_shape,          \* Y->Shape() (x_shape aliases it)
  scale_shape,      \* scale->Shape()
  bias_shape,       \* bias->Shape()
  axis, n1, n2,     \* locals of ComputeInternal
  outputs,          \* shapes of the outputs allocated so far, by index
  scratchReq,       \* sizes passed to GetScratchBuffer, in order
  part_grad_gamma,  \* local owning handle
  part_grad_beta,   \* local owning handle
  devArgs,          \* arguments HostLayerNormGradient was invoked with
  devOutcome,       \* what happened inside the device routine
  status,           \* how the call ended
  live              \* scratch allocator: addresses currently allocated

vars == <<info, kernel, axis_, pc, y_shape, scale_shape, bias_shape, axis, n1,
          n2, outputs, scratchReq, part_grad_gamma, part_grad_beta, devArgs,
          devOutcome, status, live>>

kvars == <<info, kernel, axis_>>
invars == <<y_shape, scale_shape, bias_shape>>

NoArgs == [called |-> FALSE, n1 |-> 0, n2 |-> 0, gamma |-> Null,
           beta |-> Null, part_size |-> 0]

(* ------------------- framework helpers (not in src/) ------------------- *)
\* OpKernelInfo::GetAttr<int64_t>: OK only when an integer attribute exists
GetAttrIsOK(i) == i.kind = "INT"

\* HandleNegativeAxis(axis, tensor_rank): enforces the range, then maps
HandleNegativeAxisOK(a, r) == a >= 0 - r /\ a <= r - 1
HandleNegativeAxis(a, r) == IF a < 0 THEN a + r ELSE a

NumDimensions(s) == Len(s)

\* TensorShape::SizeHelper(start, end): product of dimensions [start, end)
RECURSIVE SizeHelper(_, _, _)
SizeHelper(s, start, end) ==
  IF start >= end \/ start < 0 \/ start >= Len(s) THEN 1
  ELSE s[start + 1] * SizeHelper(s, start + 1, end)

SizeToDimension(s, d) == SizeHelper(s, 0, d)
SizeFromDimension(s, d) == SizeHelper(s, d, NumDimensions(s))

(* ------------------------- LayerNormGrad ctor -------------------------- *)
CtorEnforce_Dropped(ok) == TRUE
\* ORT_ENFORCE(op_kernel_info.GetAttr("axis", &axis_).IsOK());
CtorEnforce(ok) == ok

Construct ==
  /\ kernel = "unbuilt"
  /\ IF CtorEnforce(GetAttrIsOK(info))
       THEN /\ kernel' = "built"
            /\ axis_' = IF GetAttrIsOK(info) THEN info.v ELSE axis_
       ELSE /\ kernel' = "failed"
            /\ axis_' = axis_
  /\ UNCHANGED <<info, pc, y_shape, scale_shape, bias_shape, axis, n1, n2,
                 outputs, scratchReq, part_grad_gamma, part_grad_beta,
                 devArgs, devOutcome, status, live>>

(* --------------------------- ComputeInternal --------------------------- *)
\* The context binds the five inputs of a new invocation (lines 37-47).
Begin(c, Ys, Ps) ==
  /\ kernel = "built"
  /\ pc[c] = "idle"
  /\ \E y \in Ys, s \in Ps, b \in Ps :
       /\ y_shape' = [y_shape EXCEPT ![c] = y]
       /\ scale_shape' = [scale_shape EXCEPT ![c] = s]
       /\ bias_shape' = [bias_shape EXCEPT ![c] = b]
  /\ pc' = [pc EXCEPT ![c] = "split"]
  /\ UNCHANGED <<kvars, axis, n1, n2, outputs, scratchReq, part_grad_gamma,
                 part_grad_beta, devArgs, devOutcome, status, live>>

LocalAxis_OffByOne(c) ==
  IF axis_ < 0 THEN axis_ + NumDimensions(y_shape[c]) + 1 ELSE axis_
\* const int64_t axis = HandleNegativeAxis(axis_, x_shape.NumDimensions());
LocalAxis(c) == HandleNegativeAxis(axis_, NumDimensions(y_shape[c]))

LocalN1_Whole(c, a) == SizeFromDimension(y_shape[c], 0)
\* auto n1 = x_shape.SizeToDimension(axis);
LocalN1(c, a) == SizeToDimension(y_shape[c], a)

LocalN2_Swapped(c, a) == SizeToDimension(y_shape[c], a)
LocalN2_NextDim(c, a) == SizeFromDimension(y_shape[c], a + 1)
\* auto n2 = x_shape.SizeFromDimension(axis);
LocalN2(c, a) == SizeFromDimension(y_shape[c], a)

EnforceN2_Dropped(n) == TRUE
\* ORT_ENFORCE(n2 != 1, "n2 should not be 1");
EnforceN2(n) == n # 1

\* lines 49-54: the shape split and its check
ComputeSplit(c) ==
  /\ pc[c] = "split"
  /\ IF ~HandleNegativeAxisOK(axis_, NumDimensions(y_shape[c]))
       THEN /\ status' = [status EXCEPT ![c] = "EnforceAxis"]
            /\ pc' = [pc EXCEPT ![c] = "done"]
            /\ UNCHANGED <<axis, n1, n2>>
       ELSE LET a == LocalAxis(c)
                m1 == LocalN1(c, a)
                m2 == LocalN2(c, a)
            IN /\ axis' = [axis EXCEPT ![c] = a]
               /\ n1' = [n1 EXCEPT ![c] = m1]
               /\ n2' = [n2 EXCEPT ![c] = m2]
               /\ IF EnforceN2(m2)
                    THEN /\ pc' = [pc EXCEPT ![c] = "outputs"]
                         /\ status' = status
                    ELSE /\ pc' = [pc EXCEPT ![c] = "done"]
                         /\ status' = [status EXCEPT ![c] = "EnforceN2"]
  /\ UNCHANGED <<kvars, invars, outputs, scratchReq, part_grad_gamma,
                 part_grad_beta, devArgs, devOutcome, live>>

\* Tensor* X_grad = p_op_kernel_context->Output(0, x_shape);
XGradShape(c) == y_shape[c]

\* Tensor* scale_grad = p_op_kernel_context->Output(1, scale->Shape());
ScaleGradShape(c) == scale_shape[c]

BiasGradShape_Bias(c) == bias_shape[c]
\* Tensor* bias_grad = p_op_kernel_context->Output(2, scale->Shape());
BiasGradShape(c) == scale_shape[c]

\* lines 57-63: the three outputs
AllocOutputs(c) ==
  /\ pc[c] = "outputs"
  /\ outputs' = [outputs EXCEPT
                   ![c] = <<XGradShape(c), ScaleGradShape(c), BiasGradShape(c)>>]
  /\ pc' = [pc EXCEPT ![c] = "gamma"]
  /\ UNCHANGED <<kvars, invars, axis, n1, n2, scratchReq, part_grad_gamma,
                 part_grad_beta, devArgs, devOutcome, status, live>>

\* CudaKernel::GetScratchBuffer: the per-call allocator hands out a block
\* that is not allocated at the moment (first fit)
GetScratchBuffer(l) == CHOOSE b \in BufIds \ l : \A x \in BufIds \ l : b <= x

\* GetScratchBuffer<CudaU>(part_size * n2), first call
GammaSize(c) == part_size * n2[c]

BetaSize_Rows(c) == part_size * n1[c]
\* GetScratchBuffer<CudaU>(part_size * n2), second call
BetaSize(c) == part_size * n2[c]

\* line 66: auto part_grad_gamma = GetScratchBuffer<CudaU>(...)
AllocGamma(c) ==
  /\ pc[c] = "gamma"
  /\ BufIds \ live # {}
  /\ part_grad_gamma' = [part_grad_gamma EXCEPT ![c] = GetScratchBuffer(live)]
  /\ live' = live \cup {GetScratchBuffer(live)}
  /\ scratchReq' = [scratchReq EXCEPT ![c] = Append(@, GammaSize(c))]
  /\ pc' = [pc EXCEPT ![c] = "beta"]
  /\ UNCHANGED <<kvars, invars, axis, n1, n2, outputs, part_grad_beta,
                 devArgs, devOutcome, status>>

\* line 67: auto part_grad_beta = GetScratchBuffer<CudaU>(...)
AllocBeta(c) ==
  /\ pc[c] = "beta"
  /\ BufIds \ live # {}
  /\ part_grad_beta' = [part_grad_beta EXCEPT ![c] = GetScratchBuffer(live)]
  /\ live' = live \cup {GetScratchBuffer(live)}
  /\ scratchReq' = [scratchReq EXCEPT ![c] = Append(@, BetaSize(c))]
  /\ pc' = [pc EXCEPT ![c] = "device"]
  /\ UNCHANGED <<kvars, invars, axis, n1, n2, outputs, part_grad_gamma,
                 devArgs, devOutcome, status>>

ScopeExit_Leak(c) == live
\* the owning locals part_grad_gamma, part_grad_beta go out of scope
ScopeExit(c) == live \ {part_grad_gamma[c], part_grad_beta[c]}

\* what the external routine can do: complete, fail on the device without
\* reporting it (it returns void), or throw
DeviceOutcomes == {"ok", "failed", "throw"}

\* lines 69-70: HostLayerNormGradient(..., n1, n2, ..., part_size)
LaunchDevice(c) ==
  /\ pc[c] = "device"
  /\ devArgs' = [devArgs EXCEPT
                   ![c] = [called |-> TRUE, n1 |-> n1[c], n2 |-> n2[c],
                           gamma |-> part_grad_gamma[c],
                           beta |-> part_grad_beta[c],
                           part_size |-> part_size]]
  /\ \E o \in DeviceOutcomes :
       /\ devOutcome' = [devOutcome EXCEPT ![c] = o]
       /\ IF o = "throw"
            THEN /\ status' = [status EXCEPT ![c] = "DeviceThrow"]
                 /\ live' = ScopeExit(c)
                 /\ part_grad_gamma' = [part_grad_gamma EXCEPT ![c] = Null]
                 /\ part_grad_beta' = [part_grad_beta EXCEPT ![c] = Null]
                 /\ pc' = [pc EXCEPT ![c] = "done"]
            ELSE /\ pc' = [pc EXCEPT ![c] = "ret"]
                 /\ UNCHANGED <<status, live, part_grad_gamma, part_grad_beta>>
  /\ UNCHANGED <<kvars, invars, axis, n1, n2, outputs, scratchReq>>

\* lines 71-72: return Status::OK(); and the end of the scope
Return(c) ==
  /\ pc[c] = "ret"
  /\ status' = [status EXCEPT ![c] = "OK"]
  /\ live' = ScopeExit(c)
  /\ part_grad_gamma' = [part_grad_gamma EXCEPT ![c] = Null]
  /\ part_grad_beta' = [part_grad_beta EXCEPT ![c] = Null]
  /\ pc' = [pc EXCEPT ![c] = "done"]
  /\ UNCHANGED <<kvars, invars, axis, n1, n2, outputs, scratchReq, devArgs,
                 devOutcome>>

\* The caller has seen the result; the invocation's context is discarded.
Discard(c) ==
  /\ pc[c] = "done"
  /\ pc' = [pc EXCEPT ![c] = "idle"]
  /\ y_shape' = [y_shape EXCEPT ![c] = << >>]
  /\ scale_shape' = [scale_shape EXCEPT ![c] = << >>]
  /\ bias_shape' = [bias_shape EXCEPT ![c] = << >>]
  /\ axis' = [axis EXCEPT ![c] = 0]
  /\ n1' = [n1 EXCEPT ![c] = 0]
  /\ n2' = [n2 EXCEPT ![c] = 0]
  /\ outputs' = [outputs EXCEPT ![c] = << >>]
  /\ scratchReq' = [scratchReq EXCEPT ![c] = << >>]
  /\ devArgs' = [devArgs EXCEPT ![c] = NoArgs]
  /\ devOutcome' = [devOutcome EXCEPT ![c] = "none"]
  /\ status' = [status EXCEPT ![c] = "none"]
  /\ UNCHANGED <<kvars, part_grad_gamma, part_grad_beta, live>>

ComputeInternal(c) ==
  \/ ComputeSplit(c)
  \/ AllocOutputs(c)
  \/ AllocGamma(c)
  \/ AllocBeta(c)
  \/ LaunchDevice(c)
  \/ Return(c)

(* --------------------------- specifications ---------------------------- *)
InitWith(Infos) ==
  /\ info \in Infos
  /\ kernel = "unbuilt"
  /\ axis_ = 0
  /\ pc = [c \in Calls |-> "idle"]
  /\ y_shape = [c \in Calls |-> << >>]
  /\ scale_shape = [c \in Calls |-> << >>]
  /\ bias_shape = [c \in Calls |-> << >>]
  /\ axis = [c \in Calls |-> 0]
  /\ n1 = [c \in Calls |-> 0]
  /\ n2 = [c \in Calls |-> 0]
  /\ outputs = [c \in Calls |-> << >>]
  /\ scratchReq = [c \in Calls |-> << >>]
  /\ part_grad_gamma = [c \in Calls |-> Null]
  /\ part_grad_beta = [c \in Calls |-> Null]
  /\ devArgs = [c \in Calls |-> NoArgs]
  /\ devOutcome = [c \in Calls |-> "none"]
  /\ status = [c \in Calls |-> "none"]
  /\ live = {}

\* one call at a time, over every shape and every axis attribute
Init == InitWith(AttrInfos)

Invoke == Begin(1, Shapes, ParamShapes)

Run == ComputeInternal(1)

Finish == Discard(1)

Next ==
  \/ Construct
  \/ Invoke
  \/ Run
  \/ Finish

Spec == Init /\ [][Next]_vars

\* calls of several sessions interleaved on the one kernel instance
InitPar == InitWith(ParInfos)

InvokePar == \E c \in Calls : Begin(c, ParShapes, ParParams)

RunPar == \E c \in Calls : ComputeInternal(c)

FinishPar == \E c \in Calls : Discard(c)

NextPar ==
  \/ Construct
  \/ InvokePar
  \/ RunPar
  \/ FinishPar

SpecPar == InitPar /\ [][NextPar]_vars

(* ------------------------------ properties ----------------------------- *)
\* product of the elements of a sequence of dimensions
RECURSIVE ProdSeq(_)
ProdSeq(q) == IF q = << >> THEN 1 ELSE Head(q) * ProdSeq(Tail(q))

Rank(c) == Len(y_shape[c])
\* the call has executed the shape split (lines 49-54)
Ran(c) == pc[c] \notin {"idle", "split"}
\* the call ran to the end of ComputeInternal or was unwound from the device call
Completed(c) == pc[c] = "done" /\ status[c] \in {"OK", "DeviceThrow"}
PastOutputs(c) == pc[c] \in {"gamma", "beta", "device", "ret"} \/ Completed(c)
PastScratch(c) == pc[c] \in {"device", "ret"} \/ Completed(c)
\* the configured axis is a valid axis of the call's input: -r <= a < r
ValidAxis(c) == Rank(c) >= 1 /\ axis_ >= 0 - Rank(c) /\ axis_ < Rank(c)
ExpAxis(c) == IF axis_ < 0 THEN axis_ + Rank(c) ELSE axis_
ExpN1(c) == ProdSeq(SubSeq(y_shape[c], 1, ExpAxis(c)))
ExpN2(c) == ProdSeq(SubSeq(y_shape[c], ExpAxis(c) + 1, Rank(c)))

\* C1: for every rank r >= 1 and configured axis a with -r <= a < r, the axis
\* ComputeInternal derives is accepted and lies in 0..r-1; a negative a maps
\* to a + r and a non-negative a is kept.
AxisNormalized ==
  \A c \in Calls :
    Ran(c) /\ ValidAxis(c) =>
      /\ status[c] # "EnforceAxis"
      /\ 0 <= axis[c] /\ axis[c] < Rank(c)
      /\ axis[c] = (IF axis_ < 0 THEN axis_ + Rank(c) ELSE axis_)

AxisNormalizedWitness ==
  \E c \in Calls :
    Ran(c) /\ ValidAxis(c) /\ axis_ < 0 /\ Rank(c) = 3 /\ axis[c] = axis_ + 3

\* C2: for every shape of Y and every valid axis, the split satisfies
\* n1 * n2 = number of elements of the input tensor.
SplitCoversAll ==
  \A c \in Calls :
    Ran(c) /\ ValidAxis(c) => n1[c] * n2[c] = ProdSeq(y_shape[c])

SplitCoversAllWitness ==
  \E c \in Calls :
    Ran(c) /\ ValidAxis(c) /\ n1[c] > 1 /\ n2[c] > 1
      /\ n1[c] * n2[c] = ProdSeq(y_shape[c])

\* C3 as stated: a kernel whose axis splits a shape so that n2 = 1 fails at
\* construction, so no constructed kernel ever computes such a split.
CtorRejectsUnitSplit ==
  \A c \in Calls :
    Ran(c) /\ ValidAxis(c) /\ ExpN2(c) = 1 => kernel = "failed"

\* C3 amended: construction succeeds with every integer axis attribute; a
\* split with n2 = 1 is rejected later, by the ORT_ENFORCE of the compute call
\* that meets it, on a kernel that was constructed successfully.
UnitSplitFailsAtCompute ==
  /\ (info.kind = "INT" /\ kernel # "unbuilt" => kernel = "built")
  /\ \A c \in Calls :
       Ran(c) /\ ValidAxis(c) /\ ExpN2(c) = 1 =>
         kernel = "built" /\ pc[c] = "done" /\ status[c] = "EnforceN2"

UnitSplitFailsAtComputeWitness ==
  \E c \in Calls :
    /\ kernel = "built" /\ ValidAxis(c) /\ ExpN2(c) = 1
    /\ pc[c] = "done" /\ status[c] = "EnforceN2"

\* C4: construction without an axis attribute (or with one whose lookup does
\* not succeed) fails in the constructor: a kernel instance exists only with
\* the configured axis, and no compute call runs on anything else.
NoKernelWithoutAxis ==
  /\ (kernel = "built" => info.kind = "INT" /\ axis_ = info.v)
  /\ (info.kind # "INT" /\ kernel # "unbuilt" => kernel = "failed")
  /\ \A c \in Calls : pc[c] # "idle" => kernel = "built" /\ info.kind = "INT"

NoKernelWithoutAxisWitness == kernel = "failed" /\ info.kind = "absent"

OutputShapes ==
  \A c \in Calls :
    /\ Len(outputs[c]) \in {0, 3}
    /\ PastOutputs(c) =>
         outputs[c] = <<y_shape[c], scale_shape[c], scale_shape[c]>>

OutputShapesWitness ==
  \E c \in Calls :
    /\ PastOutputs(c) /\ bias_shape[c] # scale_shape[c]
    /\ outputs[c] = <<y_shape[c], scale_shape[c], scale_shape[c]>>

\* C7: a call with a valid n2 requests exactly two scratch buffers, each of
\* 16 * n2 elements, and passes the same 16 to the device routine as fan-out.
ScratchSizes ==
  \A c \in Calls :
    /\ Len(scratchReq[c]) <= 2
    /\ PastScratch(c) => scratchReq[c] = <<16 * n2[c], 16 * n2[c]>>
    /\ devArgs[c].called =>
         /\ devArgs[c].part_size = 16
         /\ scratchReq[c] = <<devArgs[c].part_size * devArgs[c].n2,
                              devArgs[c].part_size * devArgs[c].n2>>

ScratchSizesWitness ==
  \E c \in Calls :
    devArgs[c].called /\ n1[c] # n2[c] /\ n2[c] = 4 /\ scratchReq[c] = <<64, 64>>

\* C8: for shape [d0..d(r-1)] and normalized axis k the device routine gets
\* n1 = d0*..*d(k-1) (1 when k = 0) and n2 = dk*..*d(r-1); shape [2,3,4] with
\* axis 2 or -1 gives n1 = 6 and n2 = 4.
SplitExtents ==
  \A c \in Calls :
    /\ Ran(c) /\ ValidAxis(c) => n1[c] = ExpN1(c) /\ n2[c] = ExpN2(c)
    /\ devArgs[c].called =>
         devArgs[c].n1 = ExpN1(c) /\ devArgs[c].n2 = ExpN2(c)
    /\ devArgs[c].called /\ y_shape[c] = <<2, 3, 4>> /\ axis_ \in {2, -1} =>
         devArgs[c].n1 = 6 /\ devArgs[c].n2 = 4

SplitExtentsWitness ==
  \E c \in Calls :
    /\ devArgs[c].called /\ y_shape[c] = <<2, 3, 4>> /\ axis_ = -1
    /\ devArgs[c].n1 = 6 /\ devArgs[c].n2 = 4

\* C9: a call whose split gives n2 = 1 ends at the check with nothing done: no
\* output allocated, no scratch buffer requested, the device routine not
\* invoked; the device routine is never invoked with n2 = 1.
UnitSplitAllOrNothing ==
  \A c \in Calls :
    /\ devArgs[c].called => devArgs[c].n2 # 1
    /\ Ran(c) /\ n2[c] = 1 =>
         /\ pc[c] = "done" /\ status[c] = "EnforceN2"
         /\ outputs[c] = << >> /\ scratchReq[c] = << >>
         /\ part_grad_gamma[c] = Null /\ part_grad_beta[c] = Null
         /\ ~devArgs[c].called /\ devOutcome[c] = "none"

UnitSplitAllOrNothingWitness ==
  \E c \in Calls :
    /\ Ran(c) /\ n2[c] = 1 /\ n1[c] > 1 /\ status[c] = "EnforceN2"
    /\ outputs[c] = << >> /\ scratchReq[c] = << >>

\* the scratch buffers a call holds
Held(c) == {part_grad_gamma[c], part_grad_beta[c]} \ {Null}

ScratchOwned ==
  /\ \A c \in Calls :
       /\ pc[c] \in {"idle", "split", "outputs", "gamma", "done"} =>
            part_grad_gamma[c] = Null /\ part_grad_beta[c] = Null
       /\ pc[c] = "beta" =>
            part_grad_gamma[c] # Null /\ part_grad_beta[c] = Null
       /\ pc[c] \in {"device", "ret"} =>
            /\ part_grad_gamma[c] # Null /\ part_grad_beta[c] # Null
            /\ part_grad_gamma[c] # part_grad_beta[c]
       /\ pc[c] = "ret" =>
            /\ devArgs[c].gamma = part_grad_gamma[c]
            /\ devArgs[c].beta = part_grad_beta[c]
  /\ \A c, d \in Calls : c # d => Held(c) \cap Held(d) = {}
  /\ live = UNION {Held(c) : c \in Calls}

\* C10: across every interleaving of compute calls on one kernel instance
\* the configured axis is changed by no call, and the scratch buffers of a
\* call are held by that call alone and are released when it ends: every
\* live buffer belongs to exactly one call that is still running.
NoSharedState ==
  /\ []ScratchOwned
  /\ [][kernel = "built" => axis_' = axis_]_vars

NoSharedStateWitness ==
  \E c, d \in Calls :
    /\ c # d /\ pc[c] \in {"device", "ret"} /\ pc[d] \in {"device", "ret"}
    /\ Cardinality(live) = 4

====
